---- MODULE Spec2Model ----
(***************************************************************************)
(* Student Records front-end (src/App.tsx, src/components/StudentTable.tsx) *)
(* and its Google Apps Script gateway (src/unnamed/part_000).              *)
(*                                                                         *)
(* JavaScript strings are sequences of one-character strings, so that      *)
(* toLowerCase, includes and the header cleaning are computed, not         *)
(* assumed.  JavaScript values are records [t, s, n].                      *)
(***************************************************************************)
EXTENDS Integers, Sequences, FiniteSets, TLC

(* ---------------------------------------------------------------------- *)
(* Bounds of the model                                                     *)
(* ---------------------------------------------------------------------- *)
\* saves (card clicks and modal submits together) in one behaviour
MaxSaves == 3
\* of which submits of the edit modal
MaxModalSaves == 1
\* fetches (the one on mount, then Sync and Retry clicks) in one behaviour
MaxFetches == 2
\* executions of doPost the gateway runs in one behaviour
MaxPosts == 3

(* ---------------------------------------------------------------------- *)
(* JavaScript strings and values                                           *)
(* ---------------------------------------------------------------------- *)
UpperChars == <<"A","B","C","D","E","F","G","H","I","J","K","L","M",
                "N","O","P","Q","R","S","T","U","V","W","X","Y","Z">>
LowerChars == <<"a","b","c","d","e","f","g","h","i","j","k","l","m",
                "n","o","p","q","r","s","t","u","v","w","x","y","z">>
DigitChars == <<"0","1","2","3","4","5","6","7","8","9">>

\* String.prototype.toLowerCase, one character: the table
Chars == {UpperChars[i] : i \in DOMAIN UpperChars}
         \cup {LowerChars[i] : i \in DOMAIN LowerChars}
         \cup {DigitChars[i] : i \in DOMAIN DigitChars}
         \cup {" ", "\t", "\n", "\r", "\"", "_", ":", ".", "<"}
LowerTable ==
  [c \in Chars |->
     IF \E i \in DOMAIN UpperChars : UpperChars[i] = c
     THEN LowerChars[CHOOSE i \in DOMAIN UpperChars : UpperChars[i] = c]
     ELSE c]
LowerChar(c) == LowerTable[c]

\* String.prototype.toLowerCase
toLowerCase(s) == [i \in DOMAIN s |-> LowerChar(s[i])]

\* String.prototype.includes: t occurs in s as a contiguous substring
includes(s, t) ==
  \E k \in 0..(Len(s) - Len(t)) : \A j \in 1..Len(t) : s[k + j] = t[j]

\* Array.prototype.filter on a sequence of characters
RECURSIVE RemoveChars(_, _)
RemoveChars(s, drop) ==
  IF s = <<>> THEN <<>>
  ELSE IF Head(s) \in drop THEN RemoveChars(Tail(s), drop)
       ELSE <<Head(s)>> \o RemoveChars(Tail(s), drop)

Str(s) == [t |-> "string", s |-> s, n |-> 0]
Num(n) == [t |-> "number", s |-> <<>>, n |-> n]
Undefined == [t |-> "undefined", s |-> <<>>, n |-> 0]
JsNull == [t |-> "null", s |-> <<>>, n |-> 0]
NaN == [t |-> "NaN", s |-> <<>>, n |-> 0]

\* truthiness, as the || operator tests it
Truthy(v) ==
  CASE v.t = "string" -> v.s # <<>>
    [] v.t = "number" -> v.n # 0
    [] OTHER -> FALSE

\* a || b
Or(a, b) == IF Truthy(a) THEN a ELSE b

\* decimal digits of a natural number
RECURSIVE Digits(_)
Digits(n) ==
  IF n < 10 THEN <<DigitChars[n + 1]>>
  ELSE Digits(n \div 10) \o <<DigitChars[(n % 10) + 1]>>

\* String(v)
String(v) ==
  CASE v.t = "string" -> v.s
    [] v.t = "number" -> Digits(v.n)
    [] v.t = "undefined" -> <<"u","n","d","e","f","i","n","e","d">>
    [] v.t = "null" -> <<"n","u","l","l">>
    [] OTHER -> <<"N","a","N">>

IsDigit(c) == \E i \in DOMAIN DigitChars : DigitChars[i] = c
DigitVal(c) == (CHOOSE i \in DOMAIN DigitChars : DigitChars[i] = c) - 1

RECURSIVE ParseNat(_, _)
ParseNat(s, acc) ==
  IF s = <<>> THEN acc ELSE ParseNat(Tail(s), acc * 10 + DigitVal(Head(s)))

\* Number(v), on the values the gateway can send
Number(v) ==
  CASE v.t = "number" -> v
    [] v.t = "null" -> Num(0)
    [] v.t = "string" ->
         LET trimmed == RemoveChars(v.s, {" ", "\n", "\r"})
         IN IF \A i \in DOMAIN trimmed : IsDigit(trimmed[i])
            THEN Num(ParseNat(trimmed, 0))
            ELSE NaN
    [] OTHER -> NaN

(* ---------------------------------------------------------------------- *)
(* Field names                                                             *)
(* ---------------------------------------------------------------------- *)
K_ID == <<"I","D">>
K_FamilyId == <<"F","a","m","i","l","y","I","d">>
K_GramPanchayat == <<"G","r","a","m","P","a","n","c","h","a","y","a","t">>
K_StudentName == <<"S","t","u","d","e","n","t","N","a","m","e">>
K_FatherName == <<"F","a","t","h","e","r","N","a","m","e">>
K_Aadhaar == <<"A","a","d","h","a","a","r">>
K_DOB == <<"D","O","B">>
K_Age == <<"A","g","e">>
K_Mobile == <<"M","o","b","i","l","e">>
K_Gender == <<"G","e","n","d","e","r">>
K_AdmissionDetailed == <<"A","d","m","i","s","s","i","o","n",
                         "D","e","t","a","i","l","e","d">>
K_Remark == <<"R","e","m","a","r","k">>
K_rowIndex == <<"_","r","o","w","I","n","d","e","x">>

(* ---------------------------------------------------------------------- *)
(* JavaScript objects: a sequence of <<key, value>> in insertion order     *)
(* ---------------------------------------------------------------------- *)
HasKey(obj, k) == \E i \in DOMAIN obj : obj[i][1] = k

\* obj[k]
Get(obj, k) ==
  IF HasKey(obj, k)
  THEN obj[CHOOSE i \in DOMAIN obj : obj[i][1] = k][2]
  ELSE Undefined

\* obj[k] = v
Put(obj, k, v) ==
  IF HasKey(obj, k)
  THEN [i \in DOMAIN obj |-> IF obj[i][1] = k THEN <<k, v>> ELSE obj[i]]
  ELSE Append(obj, <<k, v>>)

(* ---------------------------------------------------------------------- *)
(* The gateway: src/unnamed/part_000                                       *)
(* A spreadsheet is a sequence of sheets; a sheet is what                  *)
(* getDataRange().getValues() returns: rows of cells, the first row the    *)
(* headers.                                                                *)
(* ---------------------------------------------------------------------- *)
Json(kind, rows, obj) == [kind |-> kind, rows |-> rows, obj |-> obj]
JsonArray(rows) == Json("array", rows, <<>>)
JsonObject(obj) == Json("object", <<>>, obj)

K_error == <<"e","r","r","o","r">>
K_id == <<"i","d">>
K_gender == <<"g","e","n","d","e","r">>
K_aadhaar == <<"a","a","d","h","a","a","r">>
K_dob == <<"d","o","b">>
K_admissiondetailed == toLowerCase(K_AdmissionDetailed)
K_admission == <<"a","d","m","i","s","s","i","o","n">>
K_remark == <<"r","e","m","a","r","k">>
K_remarks == <<"r","e","m","a","r","k","s">>

M_NoSheets ==
  <<"N","o"," ","s","h","e","e","t","s"," ","f","o",
    "u","n","d"," ","i","n"," ","s","p","r","e","a",
    "d","s","h","e","e","t">>

\* doGet's header cleaning (part_000:35-49)
CleanKey(header) ==
  LET k1 == RemoveChars(String(header), {"\"", "\n", "\r"})
      k2 == RemoveChars(k1, {" ", "\t", "\n", "\r"})
      lowerKey == toLowerCase(k2)
  IN CASE lowerKey = K_id -> K_ID
       [] lowerKey = K_dob -> K_DOB
       [] lowerKey = K_aadhaar -> K_Aadhaar
       [] lowerKey = K_gender -> K_Gender
       [] OTHER -> k2

\* headers.forEach((header, index) => obj[key] = row[index])
RECURSIVE RowObject(_, _, _, _)
RowObject(headers, row, index, obj) ==
  IF index > Len(headers) THEN obj
  ELSE RowObject(headers, row, index + 1,
                 Put(obj, CleanKey(headers[index]), row[index]))

doGet(doc) ==
  IF doc = <<>>
  THEN JsonObject(<< <<K_error, Str(M_NoSheets)>> >>)
  ELSE LET data == doc[1]
       IN IF Len(data) < 2
          THEN JsonArray(<<>>)
          ELSE JsonArray(
                 [r \in 1..(Len(data) - 1) |->
                    RowObject(data[1], data[r + 1], 1,
                              <<<<K_rowIndex, Num(r + 1)>>>>)])

\* findColumn (part_000:84-92): the 0-based index of the first header whose
\* cleaned lower-case form is one of possibleNames, or -1
findColumn(headers, possibleNames) ==
  LET clean(i) == RemoveChars(toLowerCase(String(headers[i])),
                              {"\"", "\n", "\r", " ", "\t"})
      hits == {i \in DOMAIN headers : clean(i) \in possibleNames}
  IN IF hits = {} THEN -1
     ELSE (CHOOSE i \in hits : \A j \in hits : i <= j) - 1

PostBody(id, admission, remark) ==
  [action |-> "update", id |-> id, admissionDetailed |-> admission,
   remark |-> remark]

Reply(status, message, doc) ==
  [status |-> status, message |-> message, doc |-> doc]

\* setValue on one cell (row and column 1-based)
SetCell(data, row, col, v) ==
  [data EXCEPT ![row] = [@ EXCEPT ![col] = v]]

\* a search that keeps going after a match: the last data row with the id
FindRow_Last(values, idIndex, idToFind) ==
  LET hits == {i \in 2..Len(values) :
                 String(values[i][idIndex + 1]) = idToFind}
  IN IF hits = {} THEN -1
     ELSE CHOOSE i \in hits : \A j \in hits : i >= j

\* the row to update: the first data row whose id cell, as a string, equals
\* idToFind (1-based sheet row), or -1
FindRow(values, idIndex, idToFind) ==
  LET hits == {i \in 2..Len(values) :
                 String(values[i][idIndex + 1]) = idToFind}
  IN IF hits = {} THEN -1
     ELSE CHOOSE i \in hits : \A j \in hits : i <= j

\* doPost (part_000:60-139), run under the script lock: the reply and the
\* spreadsheet it leaves
doPost(doc, postData) ==
  IF doc = <<>>
  THEN Reply("error", "TypeError", doc)
  ELSE IF postData.action # "update"
  THEN Reply("error", "Invalid action", doc)
  ELSE
    LET idToFind == postData.id
        values == doc[1]
        headers == values[1]
        idIndex == findColumn(headers, {K_id})
        admissionIndex ==
          findColumn(headers, {K_admissiondetailed, K_admission})
        remarkIndex == findColumn(headers, {K_remark, K_remarks})
        rowIndex == FindRow(values, idIndex, idToFind)
        v1 == IF admissionIndex # -1
              THEN SetCell(values, rowIndex, admissionIndex + 1,
                           Str(postData.admissionDetailed))
              ELSE values
        v2 == IF remarkIndex # -1
              THEN SetCell(v1, rowIndex, remarkIndex + 1,
                           Str(postData.remark))
              ELSE v1
    IN IF idIndex = -1
       THEN Reply("error", "ID column not found in Sheet", doc)
       ELSE IF rowIndex # -1
       THEN Reply("success", "Updated row", [doc EXCEPT ![1] = v2])
       ELSE Reply("error", "Student ID not found", doc)

(* ---------------------------------------------------------------------- *)
(* Normalizer: src/App.tsx:24-52                                           *)
(* ---------------------------------------------------------------------- *)
\* a getVal without its direct match: the first key equal ignoring case
getVal_IgnoreCaseOnly(item, key) ==
  LET lowerKey == toLowerCase(key)
      found == {i \in DOMAIN item : toLowerCase(item[i][1]) = lowerKey}
  IN IF found = {} THEN Undefined
     ELSE item[CHOOSE i \in found : \A j \in found : i <= j][2]

\* getVal (App.tsx:27-34)
getVal(item, key) ==
  IF Get(item, key) # Undefined THEN Get(item, key)
  ELSE LET lowerKey == toLowerCase(key)
           found == {i \in DOMAIN item : toLowerCase(item[i][1]) = lowerKey}
       IN IF found = {} THEN Undefined
          ELSE LET foundKey ==
                     item[CHOOSE i \in found : \A j \in found : i <= j][1]
               \* foundKey ? item[foundKey] : undefined
               IN IF foundKey # <<>> THEN Get(item, foundKey) ELSE Undefined

NormalizeRow(item) ==
  [ID |-> String(Or(getVal(item, K_ID), Str(<<>>))),
   FamilyId |-> String(Or(getVal(item, K_FamilyId), Str(<<>>))),
   GramPanchayat |-> String(Or(getVal(item, K_GramPanchayat), Str(<<>>))),
   StudentName |-> String(Or(getVal(item, K_StudentName),
                             Str(<<"U","n","k","n","o","w","n">>))),
   FatherName |-> String(Or(getVal(item, K_FatherName), Str(<<>>))),
   Aadhaar |-> String(Or(getVal(item, K_Aadhaar), Str(<<>>))),
   DOB |-> String(Or(getVal(item, K_DOB), Str(<<>>))),
   Age |-> Or(Number(getVal(item, K_Age)), Num(0)).n,
   Mobile |-> String(Or(getVal(item, K_Mobile), Str(<<>>))),
   Gender |-> String(Or(getVal(item, K_Gender), Str(<<"U">>))),
   AdmissionDetailed |->
     String(Or(getVal(item, K_AdmissionDetailed), Str(<<>>))),
   Remark |-> String(Or(getVal(item, K_Remark), Str(<<>>)))]

normalizeData(rawData) == [i \in DOMAIN rawData |-> NormalizeRow(rawData[i])]

\* null as an item of the array: written as the one entry <<"", null>>,
\* which no row object has (doGet puts _rowIndex into every one)
NullItem == << << <<>>, JsNull >> >>

\* item[key] on a null item throws a TypeError out of the map callback, and
\* so out of normalizeData
normalizeDataThrows(rawData) ==
  \E i \in DOMAIN rawData : rawData[i] = NullItem

(* ---------------------------------------------------------------------- *)
(* The spreadsheets the gateway may be serving (the sheet is shared and    *)
(* edited outside this program), the texts an operator types               *)
(* ---------------------------------------------------------------------- *)
T_empty == <<>>
T_A == <<"A">>
T_B == <<"B">>
T_K1 == <<"K","1">>
T_Bo == <<"B","o">>
T_Li == <<"L","i">>
T_p == <<"p">>

Headers1 ==
  <<Str(K_id), Str(<<"G","r","a","m"," ","P","a","n","c","h","a","y","a","t">>),
    Str(toLowerCase(K_StudentName)), Str(K_Mobile),
    Str(K_AdmissionDetailed), Str(K_Remark)>>

Doc1 == << <<Headers1,
             <<Str(T_K1), Str(T_A), Str(T_Bo), Num(70), Str(T_empty), Str(T_empty)>>,
             <<Num(2), Str(T_B), Str(T_Li), Num(81), Str(T_empty), Str(T_empty)>> >> >>
Doc2 == << <<Headers1,
             <<Str(T_K1), Str(T_B), Str(T_Bo), Num(70), Str(T_p), Str(T_p)>> >> >>
Doc3 == << <<Headers1>> >>
Doc4 == <<>>
\* a sheet with two rows whose id cell is empty, the first with an empty name
\* cell, and with two remark columns that differ in case only
Headers5 ==
  <<Str(K_id), Str(<<"G","r","a","m"," ","P","a","n","c","h","a","y","a","t">>),
    Str(toLowerCase(K_StudentName)), Str(K_Mobile),
    Str(<<"R","E","M","A","R","K">>), Str(K_Remark)>>
Doc5 == << <<Headers5,
             <<Str(T_empty), Str(T_A), Str(T_empty), Num(70), Str(T_p), Str(T_empty)>>,
             <<Str(T_empty), Str(T_A), Str(T_Li), Num(81), Str(T_p), Str(T_empty)>> >> >>
Docs == {Doc1, Doc2, Doc3, Doc4, Doc5}

\* texts typed into a card's admission field and the modal's two fields
Texts == {T_empty, T_p}
\* texts typed into a card's remark field (the operator clears it)
RemarkTexts == {T_empty}
\* texts typed into the search box
SearchTerms == {T_empty, <<"K">>}
\* the ids the spreadsheets above hold, as the program sees them
AllIds == {T_K1, <<"2">>, T_empty}

(* ---------------------------------------------------------------------- *)
(* State                                                                   *)
(* ---------------------------------------------------------------------- *)
VARIABLES
  mounted,     \* the mount effect (App.tsx:101-103) has run
  students,    \* App state: Student[]
  selectedGP,  \* App state
  searchTerm,  \* App state
  isLoading,   \* App state
  error,       \* App state: the message, or NoError for null
  fetches,     \* fetchData calls awaiting their response: the selectedGP
               \* each closed over
  cards,       \* mounted StudentCards by key (student.ID):
               \* [admission, remark, status]
  inflight,    \* handleSaveStudent calls awaiting their POST, in call order
  modal,       \* the EditStudentModal: [isOpen, id, isSaving]
  timers,      \* pending setTimeout callbacks of mounted cards, in the
               \* order they were set: [key, ms]
  nSaves,      \* saves made so far
  nModal,      \* modal submits made so far
  nFetches,    \* fetches started so far
  lastSave,    \* per id, the values of the latest save call since the
               \* collection was last replaced by a fetch (history)
  sheet,       \* gateway: the spreadsheet the script is bound to
  scriptLock,  \* gateway: the execution holding the script lock, or 0
  posts        \* gateway: the executions of doPost: [pc, body, hasLock]

vars == <<mounted, students, selectedGP, searchTerm, isLoading, error,
          fetches, cards, inflight, modal, timers, nSaves, nModal, nFetches,
          lastSave, sheet, scriptLock, posts>>

\* the state of the front-end
appVars == <<mounted, students, selectedGP, searchTerm, isLoading, error,
             fetches, cards, inflight, modal, timers, nSaves, nModal,
             nFetches, lastSave>>

\* error: null, or the message shown in the banner
NoError == [isNull |-> TRUE, message |-> <<>>]
Err(message) == [isNull |-> FALSE, message |-> message]
NoModal == [isOpen |-> FALSE, id |-> <<>>, isSaving |-> FALSE]
NoSave == [set |-> FALSE, admission |-> <<>>, remark |-> <<>>]
\* an execution of doPost that has not started
NoPost == [pc |-> "idle", body |-> PostBody(<<>>, <<>>, <<>>), hasLock |-> FALSE]

(* ---------------------------------------------------------------------- *)
(* Derived views: src/App.tsx:134-153                                      *)
(* ---------------------------------------------------------------------- *)
\* UTF-16 code unit order, which Array.prototype.sort compares by
CodeOrder == <<" ">> \o DigitChars \o UpperChars \o <<"_">> \o LowerChars
CharCode(c) == CHOOSE i \in DOMAIN CodeOrder : CodeOrder[i] = c

RECURSIVE StrLess(_, _)
StrLess(a, b) ==
  IF b = <<>> THEN FALSE
  ELSE IF a = <<>> THEN TRUE
  ELSE IF Head(a) = Head(b) THEN StrLess(Tail(a), Tail(b))
  ELSE CharCode(Head(a)) < CharCode(Head(b))

\* Array.from(set).sort()
RECURSIVE SortedSeq(_)
SortedSeq(S) ==
  IF S = {} THEN <<>>
  ELSE LET m == CHOOSE x \in S : \A y \in S \ {x} : StrLess(x, y)
       IN <<m>> \o SortedSeq(S \ {m})

\* Array.from(new Set(students.map(s => s.GramPanchayat))).filter(Boolean).sort()
gramPanchayats(studs) ==
  SortedSeq({studs[i].GramPanchayat : i \in DOMAIN studs} \ {<<>>})

SeqToSet(q) == {q[i] : i \in DOMAIN q}

\* the records of a collection with the given id (s.ID === id)
WithId(studs, id) == {i \in DOMAIN studs : studs[i].ID = id}

\* the filter callback of filteredStudents (App.tsx:143-152)
MatchStudent(s, gp, search) ==
  LET matchGP == s.GramPanchayat = gp
      term == toLowerCase(search)
      matchSearch == \/ includes(toLowerCase(s.StudentName), term)
                     \/ includes(s.ID, term)
                     \/ includes(s.Mobile, term)
  IN matchGP /\ matchSearch

filteredStudents(studs, gp, search) ==
  SelectSeq(studs, LAMBDA s : MatchStudent(s, gp, search))

(* ---------------------------------------------------------------------- *)
(* Rendering the cards: src/components/StudentTable.tsx:34-43, 391-408     *)
(* ---------------------------------------------------------------------- *)
\* the student prop of the card with key k
StudentOf(visible, k) ==
  visible[CHOOSE i \in DOMAIN visible :
            visible[i].ID = k /\ \A j \in DOMAIN visible :
                                   visible[j].ID = k => i <= j]

\* The cards after a render of App with the given state.  A card keeps its
\* state while its key stays in the list; the effect of lines 40-43 resets
\* its two fields when the student's values changed; a new key mounts a new
\* card (useState initial values, lines 35-37).
RenderCards(oldCards, oldVisible, newVisible) ==
  LET keys == {newVisible[i].ID : i \in DOMAIN newVisible}
  IN [k \in keys |->
        LET st == StudentOf(newVisible, k)
        IN IF k \in DOMAIN oldCards
           THEN LET prev == StudentOf(oldVisible, k)
                IN IF prev.AdmissionDetailed # st.AdmissionDetailed
                      \/ prev.Remark # st.Remark
                   THEN [oldCards[k] EXCEPT !.admission = st.AdmissionDetailed,
                                            !.remark = st.Remark]
                   ELSE oldCards[k]
           ELSE [admission |-> st.AdmissionDetailed,
                 remark |-> st.Remark,
                 status |-> "idle"]]

Visible == filteredStudents(students, selectedGP, searchTerm)

\* One render of App after its state became (studs, gp, search): the cards,
\* and what is left of the saves and timers of cards that unmounted (their
\* setStatus calls no longer have any effect).
Render(oldCards, studs, gp, search, flight, tms) ==
  LET newVisible == filteredStudents(studs, gp, search)
      newCards == RenderCards(oldCards, Visible, newVisible)
      gone == DOMAIN cards \ DOMAIN newCards
  IN /\ cards' = newCards
     /\ inflight' = [i \in DOMAIN flight |->
                       IF flight[i].src = "card" /\ flight[i].id \in gone
                       THEN [flight[i] EXCEPT !.live = FALSE]
                       ELSE flight[i]]
     /\ timers' = SelectSeq(tms, LAMBDA t : t.key \notin gone)

(* ---------------------------------------------------------------------- *)
(* fetchData: src/App.tsx:55-99                                            *)
(* ---------------------------------------------------------------------- *)
M_NotOk ==
  <<"N","e","t","w","o","r","k"," ","r","e","s","p",
    "o","n","s","e"," ","w","a","s"," ","n","o","t",
    " ","o","k",":"," ","5","0","0">>
M_FailedToFetch ==
  <<"F","a","i","l","e","d"," ","t","o"," ","f","e",
    "t","c","h">>
M_BadJson ==
  <<"U","n","e","x","p","e","c","t","e","d"," ","t",
    "o","k","e","n"," ","<"," ","i","n"," ","J","S",
    "O","N"," ","a","t"," ","p","o","s","i","t","i",
    "o","n"," ","0">>
M_Unable ==
  <<"U","n","a","b","l","e"," ","t","o"," ","c","o",
    "n","n","e","c","t"," ","t","o"," ","G","o","o",
    "g","l","e"," ","S","h","e","e","t",".">>
M_TypeError ==
  <<"C","a","n","n","o","t"," ","r","e","a","d"," ","p",
    "r","o","p","e","r","t","i","e","s"," ","o","f"," ",
    "n","u","l","l">>
M_SaveFailed ==
  <<"F","a","i","l","e","d"," ","t","o"," ","s","a",
    "v","e"," ","t","o"," ","c","l","o","u","d",".",
    " ","C","h","a","n","g","e","s"," ","a","r","e",
    " ","l","o","c","a","l"," ","o","n","l","y",".">>

\* what the GET can come back with: fetch rejects ("network"), a non-2xx
\* status ("http"), a body that is not JSON ("badjson"), or JSON: what doGet
\* returns for a spreadsheet, the object {}, or an array with a null item
GetResponse(kind, data) == [kind |-> kind, data |-> data]
GetResponses ==
  {GetResponse(k, JsonArray(<<>>)) : k \in {"network", "http", "badjson"}}
  \cup {GetResponse("json", doGet(doc)) : doc \in Docs}
  \cup {GetResponse("json", JsonObject(<<>>))}
  \cup {GetResponse("json", JsonArray(doGet(Doc2).rows \o <<NullItem>>))}

\* normalizeData on each array the GET can return, computed once
NormalizedRows ==
  [rows \in {r.data.rows : r \in GetResponses} |->
     IF normalizeDataThrows(rows) THEN <<>> ELSE normalizeData(rows)]

\* the state fetchData leaves: [students, selectedGP, error]
FetchState(studs, gp, err) == [students |-> studs, selectedGP |-> gp, error |-> err]

\* a catch block that sets the error and leaves the collection as it was
FetchCatch_KeepStudents(message, curGP) ==
  FetchState(students, curGP, Err(IF message # <<>> THEN message ELSE M_Unable))

\* the catch block (App.tsx:92-95); message is err.message
FetchCatch(message, curGP) ==
  FetchState(<<>>, curGP, Err(IF message # <<>> THEN message ELSE M_Unable))

\* a fetch that merges: a record whose id the collection already holds
\* keeps the two editable fields it had
FetchApply_Merge(data, closedGP, curGP, curErr) ==
  LET dataError == IF data.kind = "object" THEN Get(data.obj, K_error)
                   ELSE Undefined
      keep(n) == IF WithId(students, n.ID) = {} THEN n
                 ELSE LET old == students[CHOOSE i \in WithId(students, n.ID) : TRUE]
                      IN [n EXCEPT !.AdmissionDetailed = old.AdmissionDetailed,
                                   !.Remark = old.Remark]
  IN IF Truthy(dataError)
     THEN FetchCatch(String(dataError), curGP)
     ELSE IF data.kind = "array" /\ Len(data.rows) > 0
             /\ normalizeDataThrows(data.rows)
     THEN FetchCatch(M_TypeError, curGP)
     ELSE IF data.kind = "array" /\ Len(data.rows) > 0
     THEN LET fetched == NormalizedRows[data.rows]
              normalizedStudents == [i \in DOMAIN fetched |-> keep(fetched[i])]
              availableGPs == gramPanchayats(normalizedStudents)
          IN FetchState(
               normalizedStudents,
               IF Len(availableGPs) > 0
                  /\ (closedGP = <<>> \/ closedGP \notin SeqToSet(availableGPs))
               THEN availableGPs[1]
               ELSE curGP,
               curErr)
     ELSE FetchState(<<>>, IF closedGP = <<>> THEN <<>> ELSE curGP, curErr)

\* the body of the try block after response.json() (App.tsx:69-90);
\* closedGP is the selectedGP of the render fetchData was created in,
\* curGP the selectedGP when the response arrives
FetchApply(data, closedGP, curGP, curErr) ==
  LET dataError == IF data.kind = "object" THEN Get(data.obj, K_error)
                   ELSE Undefined
  IN IF Truthy(dataError)
     THEN FetchCatch(String(dataError), curGP)
     ELSE IF data.kind = "array" /\ Len(data.rows) > 0
             /\ normalizeDataThrows(data.rows)
     THEN FetchCatch(M_TypeError, curGP)
     ELSE IF data.kind = "array" /\ Len(data.rows) > 0
     THEN LET normalizedStudents == NormalizedRows[data.rows]
              availableGPs == gramPanchayats(normalizedStudents)
          IN FetchState(
               normalizedStudents,
               IF Len(availableGPs) > 0
                  /\ (closedGP = <<>> \/ closedGP \notin SeqToSet(availableGPs))
               THEN availableGPs[1]
               ELSE curGP,
               curErr)
     ELSE FetchState(<<>>, IF closedGP = <<>> THEN <<>> ELSE curGP, curErr)

\* curErr is the error state when the response arrives: the paths that do
\* not throw leave it alone
fetchDataResult(resp, closedGP, curGP, curErr) ==
  CASE resp.kind = "network" -> FetchCatch(M_FailedToFetch, curGP)
    [] resp.kind = "http" -> FetchCatch(M_NotOk, curGP)
    [] resp.kind = "badjson" -> FetchCatch(M_BadJson, curGP)
    [] OTHER -> FetchApply(resp.data, closedGP, curGP, curErr)

(* ---------------------------------------------------------------------- *)
(* handleSaveStudent: src/App.tsx:106-132                                  *)
(* ---------------------------------------------------------------------- *)
\* an optimistic update without the test of the id: every record is patched
OptimisticUpdate_Every(studs, id, admission, remark) ==
  [i \in DOMAIN studs |->
     [studs[i] EXCEPT !.AdmissionDetailed = admission, !.Remark = remark]]

\* the optimistic update (App.tsx:108-111)
OptimisticUpdate(studs, id, admission, remark) ==
  [i \in DOMAIN studs |->
     IF studs[i].ID = id
     THEN [studs[i] EXCEPT !.AdmissionDetailed = admission, !.Remark = remark]
     ELSE studs[i]]

\* what the POST can come back with: fetch rejects ("network"), a non-2xx
\* status ("http"), or the reply of doPost run on the spreadsheet as it is
\* then ("success", "error")
PostBodies ==
  {PostBody(id, a, r) : id \in AllIds, a \in Texts, r \in Texts}
GatewayReplies ==
  [body \in PostBodies |-> {doPost(doc, body).status : doc \in Docs}]
PostReplies(body) == {"network", "http"} \cup GatewayReplies[body]

\* a rollback written into the catch path: a failed push puts the two
\* fields of the record back to empty
SaveSettled_Rollback(reply, curErr, studs, s) ==
  [students |-> IF reply # "success"
                THEN OptimisticUpdate(studs, s.id, <<>>, <<>>)
                ELSE studs,
   error |-> IF reply = "network" THEN Err(M_SaveFailed) ELSE curErr,
   rejected |-> FALSE]

\* the completion of a push writes its own patch into the collection again
SaveSettled_Reapply(reply, curErr, studs, s) ==
  [students |-> OptimisticUpdate(studs, s.id, s.admission, s.remark),
   error |-> IF reply = "network" THEN Err(M_SaveFailed) ELSE curErr,
   rejected |-> FALSE]

\* the rest of handleSaveStudent once the POST of the save s has settled
\* (App.tsx:113-131): the collection and the error state it leaves, and
\* whether its promise rejects.  Only a rejected fetch reaches the catch
\* block, which does not rethrow; the response of a fetch that resolved is
\* not looked at; setStudents is not called again.
SaveSettled(reply, curErr, studs, s) ==
  [students |-> studs,
   error |-> IF reply = "network" THEN Err(M_SaveFailed) ELSE curErr,
   rejected |-> FALSE]

\* one call of handleSaveStudent awaiting its POST; matched: the optimistic
\* update found a record with the id; live: the card that made the call is
\* still mounted
Save(id, admission, remark, src, matched) ==
  [id |-> id, admission |-> admission, remark |-> remark, src |-> src,
   matched |-> matched, live |-> src = "card"]

RemoveAt(q, i) == [j \in 1..(Len(q) - 1) |-> IF j < i THEN q[j] ELSE q[j + 1]]

(* ---------------------------------------------------------------------- *)
(* Initial state: the useState initial values (App.tsx:17-21)              *)
(* ---------------------------------------------------------------------- *)
Init ==
  /\ mounted = FALSE
  /\ students = <<>>
  /\ selectedGP = <<>>
  /\ searchTerm = <<>>
  /\ isLoading = FALSE
  /\ error = NoError
  /\ fetches = <<>>
  /\ cards = [k \in {} |-> 0]
  /\ inflight = <<>>
  /\ modal = NoModal
  /\ timers = <<>>
  /\ nSaves = 0
  /\ nModal = 0
  /\ nFetches = 0
  /\ lastSave = [id \in AllIds |-> NoSave]
  /\ sheet = Doc1
  /\ scriptLock = 0
  /\ posts = [q \in 1..MaxPosts |-> NoPost]

(* ---------------------------------------------------------------------- *)
(* Fetching                                                                *)
(* ---------------------------------------------------------------------- *)
\* fetchData up to its first await (App.tsx:56-60)
fetchDataStart ==
  /\ nFetches < MaxFetches
  /\ nFetches' = nFetches + 1
  /\ isLoading' = TRUE
  /\ error' = NoError
  /\ fetches' = Append(fetches, selectedGP)
  /\ UNCHANGED <<sheet, scriptLock, posts, students, selectedGP, searchTerm, cards, inflight, modal,
                 timers, nSaves, nModal, lastSave>>

\* useEffect(() => { fetchData(); }, [])
Mount ==
  /\ ~mounted
  /\ mounted' = TRUE
  /\ fetchDataStart

\* a Sync button that is never disabled
Sync_AlwaysEnabled ==
  /\ mounted
  /\ UNCHANGED mounted
  /\ fetchDataStart

\* the Sync button (App.tsx:184-188), disabled while isLoading
Sync ==
  /\ mounted
  /\ ~isLoading
  /\ UNCHANGED mounted
  /\ fetchDataStart

\* the Retry button, rendered by the error view (App.tsx:284-316)
Retry ==
  /\ mounted
  /\ ~(isLoading /\ Len(students) = 0)
  /\ ~error.isNull /\ Len(students) = 0
  /\ UNCHANGED mounted
  /\ fetchDataStart

\* the rest of fetchData once the GET has settled (App.tsx:60-98)
FetchDone(i, resp) ==
  /\ i \in DOMAIN fetches
  /\ LET r == fetchDataResult(resp, fetches[i], selectedGP, error)
     IN /\ students' = r.students
        /\ selectedGP' = r.selectedGP
        /\ error' = r.error
        /\ Render(cards, r.students, r.selectedGP, searchTerm, inflight,
                  timers)
  /\ isLoading' = FALSE
  /\ fetches' = RemoveAt(fetches, i)
  /\ lastSave' = [id \in AllIds |-> NoSave]
  /\ UNCHANGED <<sheet, scriptLock, posts, modal, mounted, searchTerm, nSaves, nModal, nFetches>>

(* ---------------------------------------------------------------------- *)
(* The filters (App.tsx:223-235, 253-259)                                  *)
(* ---------------------------------------------------------------------- *)
SelectGP(gp) ==
  /\ mounted
  /\ gp \in SeqToSet(gramPanchayats(students))
  /\ gp # selectedGP
  /\ selectedGP' = gp
  /\ Render(cards, students, gp, searchTerm, inflight, timers)
  /\ UNCHANGED <<sheet, scriptLock, posts, modal, mounted, students, searchTerm, isLoading, error, fetches,
                 nSaves, nModal, nFetches, lastSave>>

SetSearch(term) ==
  /\ mounted
  /\ term # searchTerm
  /\ searchTerm' = term
  /\ Render(cards, students, selectedGP, term, inflight, timers)
  /\ UNCHANGED <<sheet, scriptLock, posts, modal, mounted, students, selectedGP, isLoading, error, fetches,
                 nSaves, nModal, nFetches, lastSave>>

(* ---------------------------------------------------------------------- *)
(* StudentCard: src/components/StudentTable.tsx:34-59, 140-169             *)
(* ---------------------------------------------------------------------- *)
SavedDisplayMs == 2000
FailedDisplayMs == 3000

EditAdmission(k, text) ==
  /\ k \in DOMAIN cards
  /\ text # cards[k].admission
  /\ cards' = [cards EXCEPT ![k].admission = text]
  /\ UNCHANGED <<sheet, scriptLock, posts, modal, mounted, students, selectedGP, searchTerm, isLoading, error,
                 fetches, inflight, timers, nSaves, nModal, nFetches,
                 lastSave>>

EditRemark(k, text) ==
  /\ k \in DOMAIN cards
  /\ text # cards[k].remark
  /\ cards' = [cards EXCEPT ![k].remark = text]
  /\ UNCHANGED <<sheet, scriptLock, posts, modal, mounted, students, selectedGP, searchTerm, isLoading, error,
                 fetches, inflight, timers, nSaves, nModal, nFetches,
                 lastSave>>

\* hasChanges (StudentTable.tsx:61)
hasChanges(card, student) ==
  \/ card.admission # String(Or(Str(student.AdmissionDetailed), Str(<<>>)))
  \/ card.remark # String(Or(Str(student.Remark), Str(<<>>)))

\* the guard of handleSave (StudentTable.tsx:46-48)
NothingToSave(card, student) ==
  card.admission = student.AdmissionDetailed /\ card.remark = student.Remark

\* handleSaveStudent up to its await (App.tsx:106-126), then a render
handleSaveStudentStart(id, admission, remark, src, oldCards) ==
  LET updatedStudents == OptimisticUpdate(students, id, admission, remark)
  IN /\ students' = updatedStudents
     /\ Render(oldCards, updatedStudents, selectedGP, searchTerm,
               Append(inflight, Save(id, admission, remark, src,
                                     WithId(students, id) # {})),
               timers)
     /\ nSaves' = nSaves + 1
     /\ lastSave' = [lastSave EXCEPT ![id] =
                       [set |-> TRUE, admission |-> admission,
                        remark |-> remark]]

\* a click on the Update button (StudentTable.tsx:167-169) runs handleSave
\* up to its await (lines 45-52)
CardSave(k) ==
  /\ k \in DOMAIN cards
  /\ nSaves < MaxSaves
  /\ LET student == StudentOf(Visible, k)
         card == cards[k]
     IN /\ ~(card.status = "saving" \/ ~hasChanges(card, student))
        /\ IF NothingToSave(card, student)
           THEN UNCHANGED <<students, cards, inflight, timers, nSaves, lastSave>>
           ELSE handleSaveStudentStart(
                  student.ID, card.admission, card.remark, "card",
                  [cards EXCEPT ![k].status = "saving"])
  /\ UNCHANGED <<sheet, scriptLock, posts, modal, mounted, selectedGP, searchTerm, isLoading, error, fetches,
                 nModal, nFetches>>

(* ---------------------------------------------------------------------- *)
(* EditStudentModal: src/components/StudentTable.tsx:420-438.  Its parent  *)
(* is not part of the sources: it opens the modal on a student that is     *)
(* displayed, passes handleSaveStudent as onSave and closes it on onClose. *)
(* ---------------------------------------------------------------------- *)
OpenModal(id) ==
  /\ mounted
  /\ ~modal.isOpen
  /\ nModal < MaxModalSaves
  /\ id \in {Visible[i].ID : i \in DOMAIN Visible}
  /\ modal' = [isOpen |-> TRUE, id |-> id, isSaving |-> FALSE]
  /\ UNCHANGED <<sheet, scriptLock, posts, mounted, students, selectedGP, searchTerm, isLoading, error,
                 fetches, cards, inflight, timers, nSaves, nModal, nFetches,
                 lastSave>>

\* the X button (StudentTable.tsx:450-456), never disabled
CloseModal ==
  /\ modal.isOpen
  /\ modal' = NoModal
  /\ UNCHANGED <<sheet, scriptLock, posts, mounted, students, selectedGP, searchTerm, isLoading, error,
                 fetches, cards, inflight, timers, nSaves, nModal, nFetches,
                 lastSave>>

\* handleSubmit up to its await (StudentTable.tsx:432-435), with the two
\* texts the operator has typed into its fields
ModalSubmit(admission, remark) ==
  /\ modal.isOpen /\ ~modal.isSaving
  /\ nSaves < MaxSaves
  /\ nModal < MaxModalSaves
  /\ modal' = [modal EXCEPT !.isSaving = TRUE]
  /\ handleSaveStudentStart(modal.id, admission, remark, "modal", cards)
  /\ nModal' = nModal + 1
  /\ UNCHANGED <<sheet, scriptLock, posts, mounted, selectedGP, searchTerm, isLoading, error, fetches,
                 nFetches>>

(* ---------------------------------------------------------------------- *)
(* The POST settles                                                        *)
(* ---------------------------------------------------------------------- *)
\* a handleSave without its catch branch: when the fetch rejects, the await
\* throws and no setStatus call follows
SaveSettle_Uncaught(i, reply) ==
  /\ i \in DOMAIN inflight
  /\ LET s == inflight[i]
         r == SaveSettled(reply, error, students, s)
     IN /\ reply \in PostReplies(PostBody(s.id, s.admission, s.remark))
        /\ students' = r.students
        /\ error' = r.error
        /\ IF s.src = "card" /\ s.live /\ reply # "network"
           THEN /\ cards' = [cards EXCEPT ![s.id].status = "saved"]
                /\ timers' = Append(timers,
                               [key |-> s.id, ms |-> SavedDisplayMs])
           ELSE UNCHANGED <<cards, timers>>
        /\ modal' = IF s.src = "modal" /\ modal.isSaving /\ modal.id = s.id
                     THEN NoModal
                     ELSE modal
  /\ inflight' = RemoveAt(inflight, i)
  /\ UNCHANGED <<sheet, scriptLock, posts, mounted, selectedGP, searchTerm, isLoading, fetches, nSaves,
                 nModal, nFetches, lastSave>>

\* the rest of handleSaveStudent (App.tsx:126-131) and then of the card's
\* handleSave (StudentTable.tsx:52-58)
SaveSettle(i, reply) ==
  /\ i \in DOMAIN inflight
  /\ LET s == inflight[i]
         r == SaveSettled(reply, error, students, s)
     IN /\ reply \in PostReplies(PostBody(s.id, s.admission, s.remark))
        /\ students' = r.students
        /\ error' = r.error
        /\ IF s.src = "card" /\ s.live
           THEN /\ cards' = [cards EXCEPT ![s.id].status =
                               IF r.rejected THEN "error" ELSE "saved"]
                /\ timers' = Append(timers,
                               [key |-> s.id,
                                ms |-> IF r.rejected THEN FailedDisplayMs
                                       ELSE SavedDisplayMs])
           ELSE UNCHANGED <<cards, timers>>
        \* handleSubmit after its await: setIsSaving(false); onClose()
        /\ modal' = IF s.src = "modal" /\ modal.isSaving /\ modal.id = s.id
                     THEN NoModal
                     ELSE modal
  /\ inflight' = RemoveAt(inflight, i)
  /\ UNCHANGED <<sheet, scriptLock, posts, mounted, selectedGP, searchTerm, isLoading, fetches, nSaves,
                 nModal, nFetches, lastSave>>

\* a setTimeout callback runs: setStatus('idle').  A timer set earlier with
\* no longer a delay runs first.
TimerFire(j) ==
  /\ j \in DOMAIN timers
  /\ \A i \in 1..(j - 1) : timers[i].ms > timers[j].ms
  /\ cards' = [cards EXCEPT ![timers[j].key].status = "idle"]
  /\ timers' = RemoveAt(timers, j)
  /\ UNCHANGED <<sheet, scriptLock, posts, modal, mounted, students, selectedGP, searchTerm, isLoading, error,
                 fetches, inflight, nSaves, nModal, nFetches, lastSave>>

(* ---------------------------------------------------------------------- *)
(* The gateway's executions of doPost: src/unnamed/part_000:60-139.  Apps   *)
(* Script runs each request in an execution of its own; the script lock is *)
(* shared by all of them.                                                   *)
(* pc: "idle", "tryLock" (in lock.tryLock(10000)), "try" (in the try block, *)
(* before the sheet is read and written), "finally" (the sheet written,     *)
(* before lock.releaseLock()), "done".                                      *)
(* ---------------------------------------------------------------------- *)
\* the bodies posted to the gateway
GatewayBodies ==
  {PostBody(T_K1, a, T_empty) : a \in Texts} \cup {PostBody(<<"2">>, T_p, T_p)}
  \cup {PostBody(T_empty, T_p, T_empty)}

\* a request arrives: doPost starts and calls lock.tryLock(10000)
\* (part_000:60-62)
PostArrive(q, body) ==
  /\ posts[q].pc = "idle"
  /\ posts' = [posts EXCEPT ![q] = [pc |-> "tryLock", body |-> body,
                                     hasLock |-> FALSE]]
  /\ UNCHANGED <<sheet, scriptLock>>
  /\ UNCHANGED appVars

\* tryLock gets the lock and returns true (part_000:62)
TryLockAcquire(q) ==
  /\ posts[q].pc = "tryLock"
  /\ scriptLock = 0
  /\ scriptLock' = q
  /\ posts' = [posts EXCEPT ![q].pc = "try", ![q].hasLock = TRUE]
  /\ UNCHANGED sheet
  /\ UNCHANGED appVars

\* the lock was held by another execution for the whole wait: tryLock
\* returns false; its result is not looked at and doPost goes on
\* (part_000:62-64)
TryLockTimeout(q) ==
  /\ posts[q].pc = "tryLock"
  /\ scriptLock # 0
  /\ posts' = [posts EXCEPT ![q].pc = "try"]
  /\ UNCHANGED <<sheet, scriptLock>>
  /\ UNCHANGED appVars

\* the try block: the sheet is read, the row found and its cells set
\* (part_000:64-131)
PostUpdate(q) ==
  /\ posts[q].pc = "try"
  /\ sheet' = doPost(sheet, posts[q].body).doc
  /\ posts' = [posts EXCEPT ![q].pc = "finally"]
  /\ UNCHANGED scriptLock
  /\ UNCHANGED appVars

\* finally { lock.releaseLock() } (part_000:136-138): releases the lock if
\* this execution holds it
PostRelease(q) ==
  /\ posts[q].pc = "finally"
  /\ scriptLock' = IF posts[q].hasLock THEN 0 ELSE scriptLock
  /\ posts' = [posts EXCEPT ![q].pc = "done", ![q].hasLock = FALSE]
  /\ UNCHANGED sheet
  /\ UNCHANGED appVars

\* the spreadsheet is edited by its users between and during requests
SheetEdited(doc) ==
  /\ doc # sheet
  /\ sheet' = doc
  /\ UNCHANGED <<scriptLock, posts>>
  /\ UNCHANGED appVars

GatewayNext ==
  \/ \E q \in 1..MaxPosts, body \in GatewayBodies : PostArrive(q, body)
  \/ \E q \in 1..MaxPosts : TryLockAcquire(q)
  \/ \E q \in 1..MaxPosts : TryLockTimeout(q)
  \/ \E q \in 1..MaxPosts : PostUpdate(q)
  \/ \E q \in 1..MaxPosts : PostRelease(q)
  \/ \E doc \in Docs : SheetEdited(doc)

\* the gateway alone, serving the requests of any number of clients
GatewaySpec == Init /\ [][GatewayNext]_vars

\* the outcomes of a POST
Replies == {"network", "http", "success", "error"}

Next ==
  \/ Mount
  \/ Sync
  \/ Retry
  \/ \E i \in DOMAIN fetches, resp \in GetResponses : FetchDone(i, resp)
  \/ \E gp \in SeqToSet(gramPanchayats(students)) : SelectGP(gp)
  \/ \E term \in SearchTerms : SetSearch(term)
  \/ \E k \in DOMAIN cards, text \in Texts : EditAdmission(k, text)
  \/ \E k \in DOMAIN cards, text \in RemarkTexts : EditRemark(k, text)
  \/ \E k \in DOMAIN cards : CardSave(k)
  \/ \E id \in AllIds : OpenModal(id)
  \/ CloseModal
  \/ \E a \in Texts, r \in Texts : ModalSubmit(a, r)
  \/ \E i \in DOMAIN inflight :
       \E reply \in PostReplies(PostBody(inflight[i].id, inflight[i].admission,
                                          inflight[i].remark)) :
         SaveSettle(i, reply)
  \/ \E j \in DOMAIN timers : TimerFire(j)

Spec == Init /\ [][Next]_vars

\* Every POST settles (the transport resolves or rejects the fetch) and every
\* setTimeout callback runs; the operator's clicks and the fetches are under
\* no obligation.
FairSpec ==
  /\ Spec
  /\ WF_vars(\E i \in DOMAIN inflight : \E reply \in Replies : SaveSettle(i, reply))
  /\ WF_vars(\E j \in DOMAIN timers : TimerFire(j))

(* ---------------------------------------------------------------------- *)
(* Properties                                                              *)
(* ---------------------------------------------------------------------- *)
\* every record with the save's id carries the save's two values
Patched(studs, s) ==
  \A i \in WithId(studs, s.id) :
    /\ studs[i].AdmissionDetailed = s.admission
    /\ studs[i].Remark = s.remark

\* the saves of the mounted card k that have started and not settled
Outstanding(k) ==
  {i \in DOMAIN inflight :
     inflight[i].src = "card" /\ inflight[i].live /\ inflight[i].id = k}

\* C1: the outcome a save reports is 'saved' exactly when the POST came back
\* with no transport error, no non-2xx status and no application-level
\* error; in every other case it is 'failed' and the card's status becomes
\* 'error', never 'saved'.
C1_OutcomeFollowsReply ==
  [][\A i \in DOMAIN inflight : \A reply \in Replies :
       (SaveSettle(i, reply) /\ inflight[i].src = "card" /\ inflight[i].live)
         => cards'[inflight[i].id].status =
              (IF reply = "success" THEN "saved" ELSE "error")]_vars

\* C2: a save on a record that exists locally leaves that record with the
\* saved admissionStatus and remark as soon as the optimistic step has run,
\* and the step in which its push fails changes no record.
C2_OptimisticKeptOnFailure ==
  [][/\ Len(inflight') = Len(inflight) + 1
          => /\ Patched(students', inflight'[Len(inflight')])
             /\ Len(students') = Len(students)
     /\ \A i \in DOMAIN inflight : \A reply \in Replies \ {"success"} :
          SaveSettle(i, reply) => students' = students]_vars

\* a save of an existing record whose push failed at the network, and the
\* record still carries what was saved
C2_Witness ==
  /\ nSaves = 1 /\ inflight = <<>>
  /\ error = Err(M_SaveFailed)
  /\ \E i \in DOMAIN students :
       /\ lastSave[students[i].ID].set
       /\ students[i].AdmissionDetailed = T_p
       /\ students[i].AdmissionDetailed = lastSave[students[i].ID].admission
       /\ students[i].Remark = lastSave[students[i].ID].remark

\* C3: when a refresh replaced the collection after a save's optimistic
\* step and before its push completes, the completion of the push puts the
\* save's two values onto the then-current record with the same id (no
\* later save of that id has been made meanwhile).
C3_PatchReappliedAfterRefresh ==
  [][\A i \in DOMAIN inflight : \A reply \in Replies :
       (SaveSettle(i, reply) /\ ~lastSave[inflight[i].id].set)
         => Patched(students', inflight[i])]_vars

\* C4: at most one save issued from a card is outstanding at any time.
C4_OneOutstandingSavePerCard ==
  \A k \in DOMAIN cards : Cardinality(Outstanding(k)) <= 1

StatusSteps ==
  {<<"idle", "saving">>, <<"saving", "saved">>, <<"saving", "error">>,
   <<"saved", "idle">>, <<"error", "idle">>}

\* C5: a card's status only moves idle->saving, saving->saved,
\* saving->failed, saved->idle, failed->idle, and it is 'saving' whenever a
\* save of the card is in flight.
C5_StatusMachine ==
  /\ [](\A k \in DOMAIN cards :
          Outstanding(k) # {} => cards[k].status = "saving")
  /\ [][\A k \in DOMAIN cards \cap DOMAIN cards' :
          \/ cards'[k].status = cards[k].status
          \/ <<cards[k].status, cards'[k].status>> \in StatusSteps]_vars

\* C6: after overlapping saves on one id the local record carries the
\* values of the save called last, in whatever order the pushes settle:
\* every record carries the values of the latest save call of its id made
\* since the collection was last fetched.
C6_LastCallWins ==
  \A i \in DOMAIN students :
    lastSave[students[i].ID].set
      => /\ students[i].AdmissionDetailed = lastSave[students[i].ID].admission
         /\ students[i].Remark = lastSave[students[i].ID].remark

\* two saves of one id overlapped, the later one has settled first and the
\* earlier one is still in flight; the record carries the later one's values
C6_Witness ==
  \E i \in DOMAIN inflight :
    LET s == inflight[i]
    IN /\ lastSave[s.id].set
       /\ <<lastSave[s.id].admission, lastSave[s.id].remark>>
            # <<s.admission, s.remark>>
       /\ \A j \in DOMAIN inflight : inflight[j].id = s.id => j = i
       /\ \E n \in WithId(students, s.id) :
            students[n].AdmissionDetailed = lastSave[s.id].admission
       /\ mounted /\ nFetches = 1

\* C7: a save whose two values equal the record's stored values is a no-op
\* through every entry point: no POST, no change of the collection, of the
\* error message or of a card's status.
C7_UnchangedSaveIsNoOp ==
  [][/\ \A a \in Texts : \A r \in Texts :
          (/\ ModalSubmit(a, r)
           /\ WithId(students, modal.id) # {}
           /\ Patched(students,
                      [id |-> modal.id, admission |-> a, remark |-> r]))
            => UNCHANGED <<inflight, students, error, cards>>
     /\ \A k \in DOMAIN cards :
          (CardSave(k) /\ NothingToSave(cards[k], StudentOf(Visible, k)))
            => UNCHANGED <<inflight, students, error, cards>>]_vars

\* C8: a save whose id matches no local record changes no record, sends
\* exactly one POST carrying that id, and reports the outcome the gateway's
\* response determines: a failure for the gateway's not-found reply.
C8_MissingIdSave ==
  [][/\ (Len(inflight') = Len(inflight) + 1
         /\ WithId(students, inflight'[Len(inflight')].id) = {})
          => students' = students
     /\ \A i \in DOMAIN inflight : \A reply \in Replies :
          (SaveSettle(i, reply) /\ ~inflight[i].matched)
            => SaveSettled(reply, error, students, inflight[i]).rejected
                 = (reply # "success")]_vars

\* C9: after a fetch has replaced the collection, selectedGroup is one of
\* the distinct non-empty groupKey values of the new collection, or empty
\* when there is none; a selection no longer present became the first value.
C9_SelectionValidAfterFetch ==
  [][\A i \in DOMAIN fetches : \A resp \in GetResponses :
       FetchDone(i, resp)
         => LET gps == gramPanchayats(students')
            IN IF gps = <<>> THEN selectedGP' = <<>>
               ELSE /\ selectedGP' \in SeqToSet(gps)
                    /\ selectedGP \notin SeqToSet(gps) => selectedGP' = gps[1]]_vars

\* C10: visibleRecords is the subsequence of records whose groupKey is
\* selectedGroup and for which query is empty or occurs, ignoring case, in
\* the name, the id or the phone.
C10_VisibleRecords ==
  Visible =
    SelectSeq(students,
      LAMBDA s :
        /\ s.GramPanchayat = selectedGP
        /\ \/ searchTerm = <<>>
           \/ includes(toLowerCase(s.StudentName), toLowerCase(searchTerm))
           \/ includes(toLowerCase(s.ID), toLowerCase(searchTerm))
           \/ includes(toLowerCase(s.Mobile), toLowerCase(searchTerm)))

\* the GET failed at transport level or its body carries a truthy error field
FetchFailed(resp) ==
  \/ resp.kind \in {"network", "http"}
  \/ /\ resp.kind = "json"
     /\ resp.data.kind = "object"
     /\ Truthy(Get(resp.data.obj, K_error))

\* C11: when a GET fails at transport level (network error, non-2xx status)
\* or carries an error field, the step that completes the fetch leaves the
\* collection empty, whatever it held, and the error message set.
C11_FailedFetchEmptiesRecords ==
  [][\A i \in DOMAIN fetches : \A resp \in GetResponses :
       (FetchDone(i, resp) /\ FetchFailed(resp))
         => students' = <<>> /\ ~error'.isNull]_vars

\* a save made on a loaded record is still in flight, and the fetch that
\* followed it failed: the collection is empty and the banner shows the
\* fetch's message
C11_Witness ==
  /\ \E i \in DOMAIN inflight : inflight[i].matched
  /\ students = <<>>
  /\ fetches = <<>>
  /\ error \in {Err(M_FailedToFetch), Err(M_NotOk), Err(M_NoSheets)}

\* C12: a GET response that parses as JSON but is neither an array nor an
\* object with an error field is a protocol violation: the step that
\* completes the fetch sets the generic connectivity error.
C12_NonArrayIsProtocolViolation ==
  [][\A i \in DOMAIN fetches : \A resp \in GetResponses :
       (/\ FetchDone(i, resp)
        /\ resp.kind = "json"
        /\ resp.data.kind # "array"
        /\ ~Truthy(Get(resp.data.obj, K_error)))
         => error' = Err(M_Unable)]_vars

\* the replies of a push that failed
FailedReplies == {"network", "http", "error"}

\* C13: every failed push sets the store-wide error message: a network
\* error, a non-2xx status and a reply with status "error" all leave the
\* same message, and the save reports a failure in all three.
C13_FailuresTakeOnePath ==
  [][\A i \in DOMAIN inflight : \A reply \in FailedReplies :
       SaveSettle(i, reply)
         => /\ error' = Err(M_SaveFailed)
            /\ SaveSettled(reply, error, students, inflight[i]).rejected]_vars

\* C14: the step that completes a fetch with a non-empty array leaves the
\* collection equal to normalize(response): one record per row, in the
\* order of the response, nothing carried over from the collection before.
C14_WholesaleReplace ==
  [][\A i \in DOMAIN fetches : \A resp \in GetResponses :
       (/\ FetchDone(i, resp)
        /\ resp.kind = "json"
        /\ resp.data.kind = "array"
        /\ Len(resp.data.rows) > 0
        /\ ~normalizeDataThrows(resp.data.rows))
         => /\ Len(students') = Len(resp.data.rows)
            /\ \A n \in DOMAIN students' :
                 students'[n] = NormalizeRow(resp.data.rows[n])]_vars

\* a save is in flight whose record was fetched again afterwards, and the
\* record carries the fetched admission text, not the saved one
C14_Witness ==
  /\ nFetches = 2 /\ fetches = <<>>
  /\ \E i \in DOMAIN inflight :
       /\ inflight[i].matched
       /\ ~lastSave[inflight[i].id].set
       /\ \E n \in WithId(students, inflight[i].id) :
            students[n].AdmissionDetailed # inflight[i].admission

Status(k) == IF k \in DOMAIN cards THEN cards[k].status ELSE "unmounted"

C16_EmptyIdSaveFindsNothing ==
  [][(/\ Len(inflight') = Len(inflight) + 1
      /\ inflight'[Len(inflight')].id = <<>>
      /\ WithId(students, <<>>) # {})
       => students' = students]_vars

\* C17: for every array of raw rows, also one holding a null item, normalize
\* returns one record per row and does not throw: the step that completes a
\* fetch with a non-empty array leaves one record per row of the response.
C17_OneRecordPerRow ==
  [][\A i \in DOMAIN fetches : \A resp \in GetResponses :
       (/\ FetchDone(i, resp)
        /\ resp.kind = "json"
        /\ resp.data.kind = "array"
        /\ Len(resp.data.rows) > 0)
         => /\ Len(students') = Len(resp.data.rows)
            /\ error' = error]_vars

\* the value under the exactly matching key if there is one, otherwise under
\* the first key equal to it ignoring case, otherwise undefined
Lookup(item, key) ==
  LET exact == {i \in DOMAIN item : item[i][1] = key}
      anyCase == {i \in DOMAIN item :
                    toLowerCase(item[i][1]) = toLowerCase(key)}
  IN IF exact # {} THEN item[CHOOSE i \in exact : TRUE][2]
     ELSE IF anyCase # {}
     THEN item[CHOOSE i \in anyCase : \A j \in anyCase : i <= j][2]
     ELSE Undefined

\* a string field: the text of the value found, or the default when no key
\* matches or the value found is empty, 0 or null
TextOrDefault(item, key, default) ==
  IF Truthy(Lookup(item, key)) THEN String(Lookup(item, key)) ELSE default

\* the record is the one the lookup rule gives for the raw row, with the
\* given defaults for name and gender, the empty string for the other
\* string fields and 0 for age
RowAsSpecified(rec, item, nameDefault, genderDefault) ==
  /\ rec.ID = TextOrDefault(item, K_ID, <<>>)
  /\ rec.FamilyId = TextOrDefault(item, K_FamilyId, <<>>)
  /\ rec.GramPanchayat = TextOrDefault(item, K_GramPanchayat, <<>>)
  /\ rec.StudentName = TextOrDefault(item, K_StudentName, nameDefault)
  /\ rec.FatherName = TextOrDefault(item, K_FatherName, <<>>)
  /\ rec.Aadhaar = TextOrDefault(item, K_Aadhaar, <<>>)
  /\ rec.DOB = TextOrDefault(item, K_DOB, <<>>)
  /\ rec.Age = (IF Number(Lookup(item, K_Age)).t = "number"
                THEN Number(Lookup(item, K_Age)).n ELSE 0)
  /\ rec.Mobile = TextOrDefault(item, K_Mobile, <<>>)
  /\ rec.Gender = TextOrDefault(item, K_Gender, genderDefault)
  /\ rec.AdmissionDetailed = TextOrDefault(item, K_AdmissionDetailed, <<>>)
  /\ rec.Remark = TextOrDefault(item, K_Remark, <<>>)

\* the rows of a response that fetchData normalizes without throwing
NormalizedResponse(resp) ==
  /\ resp.kind = "json"
  /\ resp.data.kind = "array"
  /\ Len(resp.data.rows) > 0
  /\ ~normalizeDataThrows(resp.data.rows)

\* C18 as stated: every field of every normalized row is the value under the
\* exactly matching key, else under a key equal ignoring case, else the
\* default: the empty string for every string field (the name included), 0
\* for age, the sentinel for gender.
C18_DefaultsAsStated ==
  [][\A i \in DOMAIN fetches : \A resp \in GetResponses :
       (FetchDone(i, resp) /\ NormalizedResponse(resp))
         => \A n \in DOMAIN students' :
              RowAsSpecified(students'[n], resp.data.rows[n],
                             <<>>, <<"U">>)]_vars

\* C18 as amended: the same lookup rule, the default of the name being
\* 'Unknown' and that of gender 'U', a value that is empty, 0 or null giving
\* the default too.
C18_DefaultsOfTheCode ==
  [][\A i \in DOMAIN fetches : \A resp \in GetResponses :
       (FetchDone(i, resp) /\ NormalizedResponse(resp))
         => \A n \in DOMAIN students' :
              RowAsSpecified(students'[n], resp.data.rows[n],
                             <<"U","n","k","n","o","w","n">>, <<"U">>)]_vars

\* the sheet with the two remark columns is loaded: a record took its name
\* from the key 'studentname', another got the name's default, and both took
\* the empty remark of the exactly matching column
C18_Witness ==
  /\ Len(students) = 2
  /\ students[1].StudentName = <<"U","n","k","n","o","w","n">>
  /\ students[2].StudentName = T_Li
  /\ students[1].Remark = <<>> /\ students[2].Remark = <<>>
  /\ students[1].ID = <<>>
  /\ fetches = <<>>

\* the executions of doPost that are between entering the try block and
\* releasing the lock
InSection == {q \in 1..MaxPosts : posts[q].pc \in {"try", "finally"}}

\* C19: no two executions of doPost are inside the sheet read-and-write
\* section at the same time, whatever the outcome of the lock wait.
C19_WritersSerialized == Cardinality(InSection) <= 1

\* a record with its two editable fields blanked: what a save must leave
Frame(rec) == [rec EXCEPT !.AdmissionDetailed = <<>>, !.Remark = <<>>]

\* C20: a save changes only the admissionStatus and remark of the records
\* whose id is the given id: the step that starts it keeps the number and
\* the order of the records, every other record and every other field, and
\* the step in which its push settles changes no record.
C20_SaveChangesTwoFieldsOnly ==
  [][/\ Len(inflight') = Len(inflight) + 1
          => /\ Len(students') = Len(students)
             /\ \A n \in DOMAIN students :
                  IF students[n].ID = inflight'[Len(inflight')].id
                  THEN Frame(students'[n]) = Frame(students[n])
                  ELSE students'[n] = students[n]
     /\ \A i \in DOMAIN inflight : \A reply \in Replies :
          SaveSettle(i, reply) => students' = students]_vars

\* two records are loaded and a save of the first is in flight: the first
\* carries the saved admission text, the second is as fetched
C20_Witness ==
  /\ Len(students) = 2
  /\ inflight # <<>>
  /\ lastSave[T_K1].set /\ lastSave[T_K1].admission = T_p
  /\ students[1].ID = T_K1 /\ students[1].AdmissionDetailed = T_p
  /\ students[2].ID = <<"2">> /\ students[2].AdmissionDetailed = <<>>
  /\ students[2].StudentName = T_Li

\* the data rows (1-based sheet rows) whose id cell, as a string, is id
RowsWithId(values, id) ==
  LET idIndex == findColumn(values[1], {K_id})
  IN IF idIndex = -1 THEN {}
     ELSE {i \in 2..Len(values) : String(values[i][idIndex + 1]) = id}

\* the sheet after is the sheet before except for the two given cells
OnlyCellsChanged(before, after, row, cols) ==
  /\ Len(after) = Len(before)
  /\ \A i \in DOMAIN before :
       /\ Len(after[i]) = Len(before[i])
       /\ \A j \in DOMAIN before[i] :
            (i # row \/ j \notin cols) => after[i][j] = before[i][j]

\* what the claim says of one update: with a matching row the reply is
\* "success" and nothing but the admission and remark cells of the first
\* matching row is written; written(col, text) says what holds of each of
\* the two cells.  With no matching row the reply is "error" and no cell is
\* written.
UpdateAsSpecified(before, after, body, strict) ==
  IF before = <<>>
  THEN after = before /\ doPost(before, body).status = "error"
  ELSE LET values == before[1]
           hits == RowsWithId(values, body.id)
           row == CHOOSE i \in hits : \A j \in hits : i <= j
           admissionCol ==
             findColumn(values[1], {K_admissiondetailed, K_admission}) + 1
           remarkCol == findColumn(values[1], {K_remark, K_remarks}) + 1
           written(col, text) ==
             IF col = 0 THEN ~strict ELSE after[1][row][col] = Str(text)
       IN IF hits = {}
          THEN after = before /\ doPost(before, body).status = "error"
          ELSE /\ doPost(before, body).status = "success"
               /\ Len(after) = Len(before)
               /\ OnlyCellsChanged(values, after[1], row,
                                   {admissionCol, remarkCol})
               /\ written(admissionCol, body.admissionDetailed)
               /\ written(remarkCol, body.remark)

\* C21 as stated: an update for id X writes the new admission and the new
\* remark into the first data row whose id cell equals X as a string, and
\* into no other cell, and replies "success"; with no such row no cell is
\* written and the reply is "error".
C21_UpdateWritesBothValues ==
  [][\A q \in 1..MaxPosts :
       PostUpdate(q) => UpdateAsSpecified(sheet, sheet', posts[q].body, TRUE)]_vars

\* C21 as amended: the same, each of the two values being written when the
\* sheet has a column for it.
C21_UpdateWritesFirstMatch ==
  [][\A q \in 1..MaxPosts :
       PostUpdate(q) => UpdateAsSpecified(sheet, sheet', posts[q].body, FALSE)]_vars

\* the sheet with two rows of empty id and no admission column after an
\* update for the empty id: the remark of the first row is the posted one,
\* the second row is as it was
C21_Witness ==
  /\ \E q \in 1..MaxPosts :
       posts[q].pc \in {"finally", "done"}
       /\ posts[q].body = PostBody(T_empty, T_p, T_empty)
  /\ sheet # Doc5
  /\ sheet = [Doc5 EXCEPT ![1][2][5] = Str(T_empty)]

\* C22: at most one fetch is in flight, isLoading is true exactly while one
\* is, a fetch is started only while isLoading is false (on mount, by Sync
\* or by Retry), and every fetch that ends leaves isLoading false.
C22_OneFetchAtATime ==
  /\ [](Len(fetches) <= 1 /\ (isLoading <=> fetches # <<>>))
  /\ [][(Len(fetches') > Len(fetches)) =>
           (~isLoading /\ (Mount \/ Sync \/ Retry))]_vars
  /\ [][(Len(fetches') < Len(fetches)) => ~isLoading']_vars

\* a second fetch, started by Sync or Retry after the first one ended, is
\* in flight and isLoading is true
C22_Witness ==
  /\ nFetches = MaxFetches
  /\ Len(fetches) = 1
  /\ isLoading

====
